---------------------------- MODULE Spec2Model ----------------------------
(***************************************************************************)
(* Model of the interrupt/polling control core of LCD-PatternDisplay.asm   *)
(* (ATmega2560): the button sampler (ISR timer1), the composition updater  *)
(* (ISR timer4), the foreground refresh loop (polling_loop and the         *)
(* routines it calls), start-up, and the data-space variables they share.  *)
(*                                                                         *)
(* Bytes are naturals in 0..255, characters are their ASCII codes.  An     *)
(* interrupt handler is one atomic action: the AVR clears the global       *)
(* interrupt flag on entry to a handler, neither handler executes sei, and *)
(* reti sets the flag again, so a handler runs to completion before any    *)
(* other code does.  IsrSpec runs the handlers step by step with that     *)
(* flag and is where this is checked.                                      *)
(*                                                                         *)
(* The C functions of list.c (the comparators and add_inorder) and of      *)
(* LED_Sequencer.c (led_state) are modelled as operators, each applied by  *)
(* the actions of a specification of its own (CmpSpec, ListSpec, LedSpec); *)
(* their variables rest at their initial values in the specifications of   *)
(* the LCD program, and the LCD program's rest in theirs.                  *)
(***************************************************************************)
EXTENDS Integers, Sequences, FiniteSets

(***************************************************************************)
(* Program constants.                                                      *)
(***************************************************************************)
BUTTON_RIGHT_ADC == 50
BUTTON_UP_ADC == 176
BUTTON_DOWN_ADC == 352
BUTTON_LEFT_ADC == 555

RIGHT == 82
UP == 85
DOWN == 68
LEFT == 76
SPACE == 32
DASH == 45
ASTERISK == 42

\* number of bytes of TOP_LINE_CONTENT and of CURRENT_CHARSET_INDEX
LineLen == 16
\* the largest cursor value the Right branch of timer4 lets through
MaxCursor == 15

\* .db "abcdefghijklmnopqrstuvwxyz0123456789!", 0  -- the bytes in flash
AVAILABLE_CHARSET ==
    << 97, 98, 99, 100, 101, 102, 103, 104, 105, 106, 107, 108, 109,
       110, 111, 112, 113, 114, 115, 116, 117, 118, 119, 120, 121, 122,
       48, 49, 50, 51, 52, 53, 54, 55, 56, 57,
       33,
       0 >>

(***************************************************************************)
(* Bounds of the model.                                                    *)
(***************************************************************************)
\* how many times the environment may start a new press
MaxPresses == 2
\* how many refresh passes the foreground may start
MaxRefresh == 2
\* how many timer4 interrupts may fire while the foreground is running
MaxTicks == 1
\* raw 10-bit conversion results the environment may present: 0, the values
\* on both sides of each threshold, the Select range and the idle maximum
Samples == {0, 49, 50, 175, 176, 351, 352, 554, 555, 790, 1023}

\* values a data-space byte that no code has written yet may hold at power-on
UninitByte == {0, UP, 255}

Cols == 0 .. (LineLen - 1)

VARIABLES
    BUTTON_IS_PRESSED,       \* .byte 1, written by timer1
    CURRENT_BUTTON_PRESSED,  \* .byte 1, written by timer1
    LAST_BUTTON_PRESSED,     \* .byte 1, written by test_which_button
    TOP_LINE_CONTENT,        \* .byte 16, written by timer4
    CURRENT_CHARSET_INDEX,   \* .byte 16, written by timer4
    CURRENT_CHAR_INDEX,      \* .byte 1, written by timer4
    presses,                 \* history: presses the environment has started
    upRun,                   \* history: consecutive Up ticks counted from a blank cell
    rightRun,                \* history: consecutive Right ticks counted from column 0
    tick,                    \* history: what the latest timer4 interrupt found
    sampled,                 \* history: the conversion result the latest timer1 read
    pc,                      \* the foreground's position, by the label it is at
    reg,                     \* the foreground's registers temp, r17, r18, r19
    OCF3A,                   \* timer3's compare-match flag in TIFR3
    lcd,                     \* the characters on the display, by row and column
    lcdPos,                  \* the display's writing position << row, column >>
    lcdCall,                 \* history: the latest call of the display driver
    pass,                    \* history: what the current refresh pass read and did
    refreshes,               \* history: refresh passes started
    ticks,                   \* history: timer4 interrupts counted by the foreground system
    irq,                     \* SREG's I flag, the handlers entered and not yet
                             \* returned, ADCSRA's start bit, handlers entered so far
    cmp,                     \* list.c: the latest comparator call and what it returned
    heap,                    \* list.c: the nodes allocated, by address
    list,                    \* list.c: the caller's pointer to the head of the list
    ins,                     \* list.c history: the latest add_inorder call
    PORTB,                   \* LED_Sequencer.c: the 8-bit output register PORTB
    PORTL,                   \* LED_Sequencer.c: the 8-bit output register PORTL
    led                      \* LED_Sequencer.c history: the latest led_state call

vars == << BUTTON_IS_PRESSED, CURRENT_BUTTON_PRESSED, LAST_BUTTON_PRESSED,
           TOP_LINE_CONTENT, CURRENT_CHARSET_INDEX, CURRENT_CHAR_INDEX,
           presses, upRun, rightRun, tick, sampled,
           pc, reg, OCF3A, lcd, lcdPos, lcdCall,
           pass, refreshes, ticks, irq,
           cmp, heap, list, ins, PORTB, PORTL, led >>

cmpVars == << cmp >>
listVars == << heap, list, ins >>
ledVars == << PORTB, PORTL, led >>
c99Vars == << cmpVars, listVars, ledVars >>

compVars == << TOP_LINE_CONTENT, CURRENT_CHARSET_INDEX, CURRENT_CHAR_INDEX >>
buttonVars == << BUTTON_IS_PRESSED, CURRENT_BUTTON_PRESSED, LAST_BUTTON_PRESSED >>
histVars == << presses, upRun, rightRun, tick, sampled >>
lcdVars == << lcd, lcdPos, lcdCall >>

(***************************************************************************)
(* 8-bit and 16-bit arithmetic of the AVR instructions used.               *)
(***************************************************************************)
low(w) == w % 256
high(w) == w \div 256

inc(r) == (r + 1) % 256
dec(r) == (r + 255) % 256

\* a comparison of the low bytes alone
brsh_low_only(data, boundary) == ~(low(data) < low(boundary))

\* cp DATAL, BOUNDARY_LOW ; cpc DATAH, BOUNDARY_HIGH ; brsh <skip>
\* brsh branches when the carry (the borrow of the 16-bit subtraction) is clear
brsh(data, boundary) ==
    LET borrowLow == low(data) < low(boundary)
        borrowHigh == high(data) < high(boundary) + (IF borrowLow THEN 1 ELSE 0)
    IN  ~borrowHigh

\* lpm temp, Z with Z = (AVAILABLE_CHARSET<<1) + i.  The table is the last
\* thing in the code segment: flash past it is erased and reads 0xFF.
lpm(i) == IF i < Len(AVAILABLE_CHARSET) THEN AVAILABLE_CHARSET[i + 1] ELSE 255

(***************************************************************************)
(* The display driver of lcd.asm, by its interface: lcd_gotoxy sets the    *)
(* writing position, lcd_putchar writes one character there and advances   *)
(* the position by one column.  The record of calls keeps the arguments of *)
(* the latest lcd_gotoxy, the argument of the latest lcd_putchar, the       *)
(* context that made the latest call, and the largest row and the largest  *)
(* column any lcd_gotoxy was given so far.                                 *)
(***************************************************************************)
Rows == 0 .. 1

\* the display and the writing position lcd_init leaves
ClearedLcd == [row \in Rows |-> [col \in Cols |-> SPACE]]
HomePos == << 0, 0 >>

\* the history value before any call of lcd_gotoxy or lcd_putchar
NoCall == [ctx |-> "none", row |-> 0, col |-> 0, ch |-> 0,
           toprow |-> 0, topcol |-> 0]

\* the display as one value
Lcd == [chars |-> lcd, pos |-> lcdPos, call |-> lcdCall]

lcd_gotoxy(d, row, col, ctx) ==
    [d EXCEPT !.pos = << row, col >>,
              !.call = [d.call EXCEPT !.ctx = ctx, !.row = row, !.col = col,
                           !.toprow = IF row > @ THEN row ELSE @,
                           !.topcol = IF col > @ THEN col ELSE @]]

lcd_putchar(d, ch, ctx) ==
    [d EXCEPT !.chars = IF d.pos[1] \in Rows /\ d.pos[2] \in Cols
                        THEN [d.chars EXCEPT ![d.pos[1]][d.pos[2]] = ch]
                        ELSE d.chars,
              !.pos = << d.pos[1], d.pos[2] + 1 >>,
              !.call = [d.call EXCEPT !.ctx = ctx, !.ch = ch]]

\* the display after the calls that lead to d
LcdBecomes(d) ==
    /\ lcd' = d.chars
    /\ lcdPos' = d.pos
    /\ lcdCall' = d.call

(***************************************************************************)
(* ISR timer1: sample the buttons.                                         *)
(***************************************************************************)
\* the button byte timer1 stores for conversion result s, 0 when it stores none
timer1_button(s) ==
    IF ~brsh(s, BUTTON_RIGHT_ADC) THEN RIGHT
    ELSE IF ~brsh(s, BUTTON_UP_ADC) THEN UP
    ELSE IF ~brsh(s, BUTTON_DOWN_ADC) THEN DOWN
    ELSE IF ~brsh(s, BUTTON_LEFT_ADC) THEN LEFT
    ELSE 0

\* a timer1 that marks the press on the display itself
timer1_display_marks == LcdBecomes(lcd_putchar(Lcd, ASTERISK, "timer1"))

\* timer1 holds no call of the display driver
timer1_display == UNCHANGED lcdVars

timer1(s) ==
    /\ IF timer1_button(s) # 0
       THEN /\ BUTTON_IS_PRESSED' = 1
            /\ CURRENT_BUTTON_PRESSED' = timer1_button(s)
       ELSE \* skip_left: only the flag is written
            /\ BUTTON_IS_PRESSED' = 0
            /\ UNCHANGED CURRENT_BUTTON_PRESSED
    /\ timer1_display
    /\ UNCHANGED << LAST_BUTTON_PRESSED, compVars >>

(***************************************************************************)
(* ISR timer4: update the composition state.                               *)
(***************************************************************************)
\* the composition state as one value
Comp == [top |-> TOP_LINE_CONTENT, idx |-> CURRENT_CHARSET_INDEX,
         cur |-> CURRENT_CHAR_INDEX]

\* a handler that ignores the flag
t4_pressed_always(flag) == TRUE

\* a handler that acts on the first tick of a hold only
t4_pressed_debounced(flag) ==
    /\ flag # 0
    /\ ~(tick.n = 1 /\ tick.flag # 0 /\ tick.button = CURRENT_BUTTON_PRESSED)

\* tst temp / breq exit_timer4_helper on BUTTON_IS_PRESSED
t4_pressed(flag) == flag # 0

\* an Up branch without the first_up test
t4_up_index_always_inc(r19, r18) == inc(r18)

\* cpi r19, SPACE / breq first_up / inc r18
t4_up_index(r19, r18) == IF r19 = SPACE THEN r18 ELSE inc(r18)

\* cpi temp, 0 / breq exit_timer4 on the cell's character
t4_up_at_max(ch) == ch = 0

\* an Up branch that also moves the cursor on to the next column
t4_up_advance(c) ==
    LET col == c.cur
        r19 == c.top[col]
        r18 == t4_up_index(r19, c.idx[col])
    IN  IF t4_up_at_max(c.top[col])
        THEN c
        ELSE [c EXCEPT !.idx[col] = r18, !.top[col] = lpm(r18),
                       !.cur = IF col = MaxCursor THEN col ELSE inc(col)]

t4_up(c) ==
    LET col == c.cur
        r19 == c.top[col]
        r18 == t4_up_index(r19, c.idx[col])
    IN  IF t4_up_at_max(c.top[col])
        THEN c
        ELSE [c EXCEPT !.idx[col] = r18, !.top[col] = lpm(r18)]

\* a Down branch that blanks the cell one index early
t4_down_min_at_1(r18) == r18 <= 1

\* a Down branch that decrements whatever the index
t4_down_never_min(r18) == FALSE

\* tst r18 / breq zeroed_clear_count
t4_down_at_min(r18) == r18 = 0

\* a Down branch that holds the first character instead of blanking the cell
t4_down_hold_first(c) ==
    LET col == c.cur
        r18 == c.idx[col]
    IN  IF t4_down_at_min(r18)
        THEN c
        ELSE [c EXCEPT !.idx[col] = dec(r18), !.top[col] = lpm(dec(r18))]

t4_down(c) ==
    LET col == c.cur
        r18 == c.idx[col]
    IN  IF t4_down_at_min(r18)
        THEN [c EXCEPT !.top[col] = SPACE]
        ELSE [c EXCEPT !.idx[col] = dec(r18), !.top[col] = lpm(dec(r18))]

\* a Right branch that tests for one column too far
t4_right_at_16(cur) == cur = MaxCursor + 1

\* cpi temp, 15 / breq exit_timer4
t4_right_at_max(cur) == cur = MaxCursor

\* a Right branch that carries the cell's character to the next column
t4_right_carry(c) ==
    IF t4_right_at_max(c.cur) THEN c
    ELSE [c EXCEPT !.cur = inc(c.cur), !.top[inc(c.cur)] = c.top[c.cur]]

t4_right(c) ==
    IF t4_right_at_max(c.cur) THEN c ELSE [c EXCEPT !.cur = inc(c.cur)]

\* a Left branch without the test for column 0
t4_left_never_min(cur) == FALSE

\* tst temp / breq exit_timer4
t4_left_at_min(cur) == cur = 0

t4_left(c) ==
    IF t4_left_at_min(c.cur) THEN c ELSE [c EXCEPT !.cur = dec(c.cur)]

\* the composition state timer4 leaves, from the flag, the button byte and
\* the composition state it finds
timer4_step(flag, button, c) ==
    IF ~t4_pressed(flag) THEN c
    ELSE IF button = UP THEN t4_up(c)
    ELSE IF button = DOWN THEN t4_down(c)
    ELSE IF button = RIGHT THEN t4_right(c)
    ELSE IF button = LEFT THEN t4_left(c)
    ELSE c

\* timer4 holds no call of the display driver
timer4_display == UNCHANGED lcdVars

timer4 ==
    LET r == timer4_step(BUTTON_IS_PRESSED, CURRENT_BUTTON_PRESSED, Comp)
    IN  /\ TOP_LINE_CONTENT' = r.top
        /\ CURRENT_CHARSET_INDEX' = r.idx
        /\ CURRENT_CHAR_INDEX' = r.cur
        /\ UNCHANGED buttonVars
        /\ timer4_display

(***************************************************************************)
(* The vocabulary of the claims.                                           *)
(***************************************************************************)
\* the number of selectable characters: the string without its terminator
PaletteLen == Len(AVAILABLE_CHARSET) - 1

\* the i-th selectable character, i in 0 .. PaletteLen-1
Palette(i) == AVAILABLE_CHARSET[i + 1]

Cursor == CURRENT_CHAR_INDEX
Pressed == BUTTON_IS_PRESSED # 0

\* the latest timer4 interrupt found the flag set and button b stored
Ticked(b) == tick.n = 1 /\ tick.flag # 0 /\ tick.button = b

Min(a, b) == IF a < b THEN a ELSE b

(***************************************************************************)
(* The system: the state when start enters polling_loop, and the two       *)
(* handlers firing in any order.  The history variables record what the    *)
(* handlers did; no handler reads them.                                    *)
(***************************************************************************)
\* the history value before any timer4 interrupt
NoTick == [n |-> 0]

\* the history value while no conversion result is on record
NoSample == [n |-> 0]

\* the registers where the foreground keeps nothing in them: r17 is a
\* column, r18 LAST_BUTTON_PRESSED or a cell as loaded, r19
\* CURRENT_BUTTON_PRESSED as loaded
NoRegs == [temp |-> 0, r17 |-> 0, r18 |-> 0, r19 |-> 0]

\* the history value of a refresh pass that has read nothing yet
NoPass == [flag |-> 0, was |-> 0, last |-> 0, cur |-> 0, redrawn |-> FALSE,
           pairs |-> {}]

\* after sei, with no handler entered and no conversion started
NoIrq == [I |-> 1, stack |-> << >>, ADSC |-> 0, n |-> 0]

\* the foreground on entering polling_loop, lcd_init done, timer3 running
AtPollingLoop ==
    /\ pc = "polling_loop"
    /\ reg = NoRegs
    /\ OCF3A = 0
    /\ lcd = ClearedLcd
    /\ lcdPos = HomePos
    /\ lcdCall = NoCall
    /\ pass = NoPass
    /\ refreshes = 0
    /\ ticks = 0
    /\ irq = NoIrq

\* initialize_data_space, run undisturbed: 16 spaces, 16 zero indices, cursor 0.
\* It writes none of the three button bytes.
InitMemory ==
    /\ TOP_LINE_CONTENT = [i \in Cols |-> SPACE]
    /\ CURRENT_CHARSET_INDEX = [i \in Cols |-> 0]
    /\ CURRENT_CHAR_INDEX = 0
    /\ BUTTON_IS_PRESSED \in UninitByte
    /\ CURRENT_BUTTON_PRESSED \in UninitByte
    /\ LAST_BUTTON_PRESSED \in UninitByte
    /\ presses = IF BUTTON_IS_PRESSED # 0 THEN 1 ELSE 0
    /\ upRun = 0
    /\ rightRun = 0
    /\ tick = NoTick
    /\ AtPollingLoop

\* the null pointer
NULL == 0

\* no comparator has been called
NoCmp == [n |-> 0]

\* add_inorder has not been called
NoIns == [n |-> 0]

\* led_state has not been called
NoLed == [n |-> 0]

\* the C functions at rest: nothing called, nothing allocated, ports at reset
CmpIdle == cmp = NoCmp
ListIdle == heap = << >> /\ list = NULL /\ ins = NoIns
LedIdle == PORTB = 0 /\ PORTL = 0 /\ led = NoLed

Init ==
    /\ InitMemory
    /\ sampled = NoSample
    /\ CmpIdle /\ ListIdle /\ LedIdle

\* a sampler run starts a new press when it stores a button and either no
\* button was flagged or another button was stored
StartsPress(s) ==
    /\ timer1_button(s) # 0
    /\ \/ BUTTON_IS_PRESSED = 0
       \/ CURRENT_BUTTON_PRESSED # timer1_button(s)

\* one timer1 interrupt with conversion result s
Sample(s) ==
    /\ StartsPress(s) => presses < MaxPresses
    /\ timer1(s)
    /\ presses' = IF StartsPress(s) THEN presses + 1 ELSE presses
    /\ UNCHANGED << upRun, rightRun, tick >>

\* the run counters saturate one past the last tick the claims tell apart
UpRunCap == Len(AVAILABLE_CHARSET) + 1
RightRunCap == LineLen + 1

\* one timer4 interrupt
Update ==
    /\ timer4
    /\ upRun' = IF Pressed /\ CURRENT_BUTTON_PRESSED = UP
                THEN IF TOP_LINE_CONTENT[Cursor] = SPACE THEN 1
                     ELSE IF upRun > 0 THEN Min(upRun + 1, UpRunCap)
                     ELSE 0
                ELSE 0
    /\ rightRun' = IF Pressed /\ CURRENT_BUTTON_PRESSED = RIGHT
                   THEN IF Cursor = 0 THEN 1
                        ELSE IF rightRun > 0 THEN Min(rightRun + 1, RightRunCap)
                        ELSE 0
                   ELSE 0
    /\ tick' = [n |-> 1, flag |-> BUTTON_IS_PRESSED, button |-> CURRENT_BUTTON_PRESSED,
                before |-> Comp, run |-> upRun]
    /\ UNCHANGED presses

\* what the composition specification keeps no record of
unrecorded == << sampled, pc, reg, OCF3A, pass, refreshes, ticks, irq, c99Vars >>

Next ==
    \/ \E s \in Samples : Sample(s) /\ UNCHANGED unrecorded
    \/ Update /\ UNCHANGED unrecorded

Spec == Init /\ [][Next]_vars

(***************************************************************************)
(* The sampler alone, over every result the 10-bit converter can deliver.  *)
(***************************************************************************)
\* ADCH:ADCL, right-adjusted 10 bits
AdcResults == 0 .. 1023

\* the state when start enters polling_loop, a conversion result pending
SamplerInit ==
    /\ InitMemory
    /\ sampled \in [n : {0}, s : AdcResults]
    /\ CmpIdle /\ ListIdle /\ LedIdle

\* the timer1 interrupt that reads the pending result
Convert ==
    /\ sampled.n = 0
    /\ timer1(sampled.s)
    /\ sampled' = [sampled EXCEPT !.n = 1]
    /\ UNCHANGED << presses, upRun, rightRun, tick >>
    /\ UNCHANGED << pc, reg, OCF3A, pass, refreshes, ticks, irq, c99Vars >>

SamplerNext == Convert

SamplerSpec == SamplerInit /\ [][SamplerNext]_vars

(***************************************************************************)
(* The foreground: polling_loop and the routines it calls.  A step ends    *)
(* before each read of a byte an interrupt handler writes, so timer1 and   *)
(* timer4 may run before every such read; the calls of the display driver  *)
(* that follow a read belong to the read's step.  A routine's registers    *)
(* are cleared where the routine pops them.                                *)
(***************************************************************************)
\* what no foreground step writes but set_char_end's store
fgKeeps == << BUTTON_IS_PRESSED, CURRENT_BUTTON_PRESSED, compVars, histVars, ticks,
             irq, c99Vars >>

\* (1 << OCF3A), the byte polling_loop reads from TIFR3 once the flag is
\* set and no other flag of timer3 is
OCF3A_MASK == 2

\* in temp, TIFR3 / sbrs temp, OCF3A: a pass starts once the flag is set;
\* push temp, and set_button_press up to its call of lcd_gotoxy
polling_loop ==
    /\ pc = "polling_loop"
    /\ OCF3A = 1
    /\ refreshes < MaxRefresh
    /\ reg' = [reg EXCEPT !.temp = OCF3A_MASK]
    /\ LcdBecomes(lcd_gotoxy(Lcd, 1, 15, "main"))
    /\ pc' = "set_button_press"
    /\ refreshes' = refreshes + 1
    /\ pass' = NoPass
    /\ UNCHANGED << OCF3A, LAST_BUTTON_PRESSED, fgKeeps >>

\* the byte polling_loop pops after set_button_press: the routine loads the
\* pushed byte into r18 (ldd r18, Y+PARAM_OFFSET), sets r18 to 1 or 0 and
\* pops r18 again, and never stores to the pushed byte
set_button_press_ret(pushed, flag) == pushed

\* pop temp / tst temp / breq skip_counter, else rcall set_counter
after_set_button_press(temp) ==
    IF temp = 0 THEN "skip_counter" ELSE "set_counter"

\* lds temp, BUTTON_IS_PRESSED / tst temp / breq button_not_pressed, and the
\* lcd_putchar of either branch; with no button pressed the routine returns
set_button_press ==
    /\ pc = "set_button_press"
    /\ pass' = [pass EXCEPT !.flag = BUTTON_IS_PRESSED,
                            !.was = CURRENT_BUTTON_PRESSED,
                            !.last = LAST_BUTTON_PRESSED,
                            !.cur = CURRENT_BUTTON_PRESSED]
    /\ IF BUTTON_IS_PRESSED # 0
       THEN /\ LcdBecomes(lcd_putchar(Lcd, ASTERISK, "main"))
            /\ pc' = "test_which_button"
            /\ UNCHANGED reg
       ELSE LET temp == set_button_press_ret(reg.temp, BUTTON_IS_PRESSED)
            IN  /\ LcdBecomes(lcd_putchar(Lcd, DASH, "main"))
                /\ reg' = [NoRegs EXCEPT !.temp = temp]
                /\ pc' = after_set_button_press(temp)
    /\ UNCHANGED << OCF3A, refreshes, LAST_BUTTON_PRESSED, fgKeeps >>

\* the column test_which_button passes to set_char for the button in r19
glyph_col(b) ==
    IF b = RIGHT THEN 3 ELSE IF b = UP THEN 2 ELSE IF b = DOWN THEN 1 ELSE 0

\* clear_lcd_row from its counter temp on: cpi temp, 16 / breq
\* exit_clear_lcd_row, else lcd_gotoxy to the row and column temp,
\* lcd_putchar of a space, inc temp, rjmp loop
\* (the display a turn starts from is bound to one value, e)
RECURSIVE clear_lcd_row_loop(_, _, _)
clear_lcd_row_loop(d, row, t) ==
    IF t = LineLen THEN d
    ELSE CHOOSE after \in
             { clear_lcd_row_loop(
                   lcd_putchar(lcd_gotoxy(e, row, t, "main"), SPACE, "main"),
                   row, inc(t)) : e \in {d} } : TRUE

\* a row clear whose loop runs one column further: cpi temp, 17
clear_lcd_row_17(d, row) ==
    lcd_putchar(lcd_gotoxy(clear_lcd_row_loop(d, row, 0), row, LineLen, "main"),
                SPACE, "main")

\* ldi temp, 0 and the loop
clear_lcd_row(d, row) == clear_lcd_row_loop(d, row, 0)

\* lds r18, LAST_BUTTON_PRESSED / lds r19, CURRENT_BUTTON_PRESSED / cp / breq,
\* then the cpi ladder and the call of set_char, up to set_char's own load
\* of CURRENT_BUTTON_PRESSED: its call of clear_lcd_row for row 1
test_which_button ==
    /\ pc = "test_which_button"
    /\ IF LAST_BUTTON_PRESSED = CURRENT_BUTTON_PRESSED
       THEN LET temp == set_button_press_ret(reg.temp, pass.flag)
            IN  /\ pc' = after_set_button_press(temp)
                /\ reg' = [NoRegs EXCEPT !.temp = temp]
                /\ pass' = [pass EXCEPT !.last = LAST_BUTTON_PRESSED,
                                        !.cur = CURRENT_BUTTON_PRESSED]
                /\ UNCHANGED lcdVars
       ELSE IF CURRENT_BUTTON_PRESSED \in {RIGHT, UP, DOWN, LEFT}
       THEN /\ pc' = "set_char"
            /\ reg' = [reg EXCEPT !.r17 = glyph_col(CURRENT_BUTTON_PRESSED),
                                  !.r18 = LAST_BUTTON_PRESSED,
                                  !.r19 = CURRENT_BUTTON_PRESSED]
            /\ pass' = [pass EXCEPT !.last = LAST_BUTTON_PRESSED,
                                    !.cur = CURRENT_BUTTON_PRESSED,
                                    !.redrawn = TRUE]
            /\ LcdBecomes(clear_lcd_row(Lcd, 1))
       ELSE /\ pc' = "set_char_end"
            /\ reg' = [reg EXCEPT !.r18 = LAST_BUTTON_PRESSED,
                                  !.r19 = CURRENT_BUTTON_PRESSED]
            /\ pass' = [pass EXCEPT !.last = LAST_BUTTON_PRESSED,
                                    !.cur = CURRENT_BUTTON_PRESSED]
            /\ UNCHANGED lcdVars
    /\ UNCHANGED << OCF3A, refreshes, LAST_BUTTON_PRESSED, fgKeeps >>

\* set_char after clear_lcd_row: lds r19, CURRENT_BUTTON_PRESSED, then
\* lcd_gotoxy to the row and column passed and lcd_putchar of r19
set_char ==
    /\ pc = "set_char"
    /\ reg' = [reg EXCEPT !.r19 = CURRENT_BUTTON_PRESSED]
    /\ LcdBecomes(lcd_putchar(lcd_gotoxy(Lcd, 1, reg.r17, "main"),
                              CURRENT_BUTTON_PRESSED, "main"))
    /\ pc' = "set_char_end"
    /\ UNCHANGED << OCF3A, pass, refreshes, LAST_BUTTON_PRESSED, fgKeeps >>

\* a store that also takes the button byte back to 0
set_char_end_store_clears ==
    /\ LAST_BUTTON_PRESSED' = CURRENT_BUTTON_PRESSED
    /\ CURRENT_BUTTON_PRESSED' = 0
    /\ UNCHANGED << BUTTON_IS_PRESSED, compVars, histVars, ticks, irq, c99Vars >>

\* lds r19, CURRENT_BUTTON_PRESSED / sts LAST_BUTTON_PRESSED, r19
set_char_end_store ==
    /\ LAST_BUTTON_PRESSED' = CURRENT_BUTTON_PRESSED
    /\ UNCHANGED fgKeeps

\* test_which_button and set_button_press return
set_char_end ==
    LET temp == set_button_press_ret(reg.temp, pass.flag)
    IN  /\ pc = "set_char_end"
        /\ set_char_end_store
        /\ reg' = [NoRegs EXCEPT !.temp = temp]
        /\ pc' = after_set_button_press(temp)
        /\ UNCHANGED << OCF3A, lcdVars, pass, refreshes >>

\* the cursor and the cell under it, as one pair
CursorCell == << CURRENT_CHAR_INDEX, TOP_LINE_CONTENT[CURRENT_CHAR_INDEX] >>

\* lds r17, CURRENT_CHAR_INDEX; the pass starts its record of the pairs of
\* cursor and cell under it that exist from this load on
set_counter ==
    /\ pc = "set_counter"
    /\ reg' = [reg EXCEPT !.r17 = CURRENT_CHAR_INDEX]
    /\ pc' = "ld_cell"
    /\ pass' = [pass EXCEPT !.pairs = {CursorCell}]
    /\ UNCHANGED << OCF3A, lcdVars, refreshes, LAST_BUTTON_PRESSED, fgKeeps >>

\* a test for the blank cell
set_counter_skips_space(ch) == ch = SPACE

\* cpi r18, 0 / breq exit_set_counter
set_counter_skips(ch) == ch = 0

\* ld r18, Z with Z = TOP_LINE_CONTENT + r17, then either exit_set_counter
\* or lcd_gotoxy to row 0 and column r17 and lcd_putchar of r18
ld_cell ==
    LET ch == TOP_LINE_CONTENT[reg.r17]
    IN  /\ pc = "ld_cell"
        /\ reg' = [reg EXCEPT !.r18 = ch]
        /\ IF set_counter_skips(ch)
           THEN UNCHANGED lcdVars
           ELSE LcdBecomes(lcd_putchar(lcd_gotoxy(Lcd, 0, reg.r17, "main"),
                                       ch, "main"))
        /\ pc' = "skip_counter"
        /\ UNCHANGED << OCF3A, pass, refreshes, LAST_BUTTON_PRESSED, fgKeeps >>

\* ldi temp, (1<<OCF3A) / sts TIFR3, temp / rjmp polling_loop.  Whether the
\* store reaches the flag register depends on the address the device's
\* definition file gives TIFR3 for sts: the flag is cleared or left set.
skip_counter ==
    /\ pc = "skip_counter"
    /\ OCF3A' \in {0, OCF3A}
    /\ reg' = NoRegs
    /\ pass' = NoPass
    /\ pc' = "polling_loop"
    /\ UNCHANGED << lcdVars, refreshes, LAST_BUTTON_PRESSED, fgKeeps >>

\* timer3 reaches TOP3: the hardware sets the flag
timer3 ==
    /\ OCF3A = 0
    /\ OCF3A' = 1
    /\ UNCHANGED << pc, reg, lcdVars, pass, refreshes, LAST_BUTTON_PRESSED, fgKeeps >>

Foreground ==
    \/ polling_loop
    \/ set_button_press
    \/ test_which_button
    \/ set_char
    \/ set_char_end
    \/ set_counter
    \/ ld_cell
    \/ skip_counter

\* one timer1 interrupt while the foreground runs
FgSample(s) ==
    /\ Sample(s)
    /\ UNCHANGED << sampled, pc, reg, OCF3A, pass, refreshes, ticks, irq, c99Vars >>

\* one timer4 interrupt while the foreground runs, counted and otherwise
\* not put on record
FgUpdate ==
    /\ ticks < MaxTicks
    /\ timer4
    /\ ticks' = ticks + 1
    /\ pass' = IF pc = "ld_cell"
               THEN [pass EXCEPT !.pairs = @ \cup {CursorCell'}]
               ELSE pass
    /\ UNCHANGED << histVars, pc, reg, OCF3A, refreshes, irq, c99Vars >>

FgNext ==
    \/ \E s \in Samples : FgSample(s)
    \/ FgUpdate
    \/ timer3
    \/ Foreground

FgSpec == Init /\ [][FgNext]_vars

(***************************************************************************)
(* Start-up: from power-on, with sei already executed, through lcd_init    *)
(* and initialize_data_space to polling_loop, timer1 and timer4 firing     *)
(* between any two steps.  A step ends before each store to a byte an      *)
(* interrupt handler reads.  The counter of clear_data_space is r17, the   *)
(* byte it stores r18.                                                     *)
(***************************************************************************)
\* start-up is over
Booted == pc = "polling_loop"

\* the data space at power-on: no byte has been written.  The two arrays
\* are taken as filled with one value each.
PowerOn ==
    /\ BUTTON_IS_PRESSED \in UninitByte
    /\ CURRENT_BUTTON_PRESSED \in UninitByte
    /\ LAST_BUTTON_PRESSED \in UninitByte
    /\ \E g \in UninitByte : TOP_LINE_CONTENT = [i \in Cols |-> g]
    /\ \E g \in UninitByte : CURRENT_CHARSET_INDEX = [i \in Cols |-> g]
    /\ CURRENT_CHAR_INDEX \in UninitByte

BootInit ==
    /\ PowerOn
    /\ presses = IF BUTTON_IS_PRESSED # 0 THEN 1 ELSE 0
    /\ upRun = 0
    /\ rightRun = 0
    /\ tick = NoTick
    /\ sampled = NoSample
    /\ pc = "start"
    /\ reg = NoRegs
    /\ OCF3A = 0
    /\ lcd = ClearedLcd
    /\ lcdPos = HomePos
    /\ lcdCall = NoCall
    /\ pass = NoPass
    /\ refreshes = 0
    /\ ticks = 0
    /\ irq = NoIrq
    /\ CmpIdle /\ ListIdle /\ LedIdle

\* what no step of start-up writes
bootKeeps == << buttonVars, histVars, OCF3A, lcdVars, pass, refreshes, ticks, irq, c99Vars >>

\* rcall lcd_init, then initialize_data_space up to its first store
start ==
    /\ pc = "start"
    /\ pc' = "clear_top"
    /\ reg' = [reg EXCEPT !.r17 = 0, !.r18 = SPACE]
    /\ UNCHANGED << compVars, bootKeeps >>

\* loop_clear_data_space on TOP_LINE_CONTENT: cp r17, temp / breq exit, else
\* st Z+, r18 / inc r17; on exit the call for CURRENT_CHARSET_INDEX
clear_top ==
    /\ pc = "clear_top"
    /\ IF reg.r17 = LineLen
       THEN /\ pc' = "clear_index"
            /\ reg' = [reg EXCEPT !.r17 = 0, !.r18 = 0]
            /\ UNCHANGED TOP_LINE_CONTENT
       ELSE /\ TOP_LINE_CONTENT' = [TOP_LINE_CONTENT EXCEPT ![reg.r17] = reg.r18]
            /\ reg' = [reg EXCEPT !.r17 = inc(reg.r17)]
            /\ pc' = "clear_top"
    /\ UNCHANGED << CURRENT_CHARSET_INDEX, CURRENT_CHAR_INDEX, bootKeeps >>

\* loop_clear_data_space on CURRENT_CHARSET_INDEX
clear_index ==
    /\ pc = "clear_index"
    /\ IF reg.r17 = LineLen
       THEN /\ pc' = "zero_char_index"
            /\ reg' = NoRegs
            /\ UNCHANGED CURRENT_CHARSET_INDEX
       ELSE /\ CURRENT_CHARSET_INDEX' =
                   [CURRENT_CHARSET_INDEX EXCEPT ![reg.r17] = reg.r18]
            /\ reg' = [reg EXCEPT !.r17 = inc(reg.r17)]
            /\ pc' = "clear_index"
    /\ UNCHANGED << TOP_LINE_CONTENT, CURRENT_CHAR_INDEX, bootKeeps >>

\* ldi temp, 0 / sts CURRENT_CHAR_INDEX, temp, return, polling_loop
zero_char_index ==
    /\ pc = "zero_char_index"
    /\ CURRENT_CHAR_INDEX' = 0
    /\ pc' = "polling_loop"
    /\ UNCHANGED << reg, TOP_LINE_CONTENT, CURRENT_CHARSET_INDEX, bootKeeps >>

\* timer4's pointers leave the two arrays: with the cursor byte at a
\* power-on value past 15, Y and Z address bytes that are none of the
\* program's variables, and the Up and Down branches load and store there
WildCursor ==
    /\ Pressed
    /\ CURRENT_BUTTON_PRESSED \in {UP, DOWN}
    /\ Cursor \notin Cols

\* one timer4 interrupt during start-up
BootUpdate ==
    /\ ticks < MaxTicks
    /\ IF WildCursor
       THEN UNCHANGED << compVars, buttonVars, lcdVars >>
       ELSE timer4
    /\ ticks' = ticks + 1
    /\ UNCHANGED << histVars, pc, reg, OCF3A, pass, refreshes, irq, c99Vars >>

BootNext ==
    \/ \E s \in Samples : FgSample(s)
    \/ BootUpdate
    \/ start
    \/ clear_top
    \/ clear_index
    \/ zero_char_index

BootSpec == BootInit /\ [][BootNext]_vars

(***************************************************************************)
(* The handlers step by step, with SREG's I flag.  The hardware takes an   *)
(* interrupt only while I is set, clears I as it enters the handler and    *)
(* sets it again at reti; a handler saves SREG after entry, so the copy it *)
(* restores with out SREG has I clear.  The foreground runs while no       *)
(* handler is entered.  timer1 sets ADCSRA's start bit and loops until the *)
(* converter has cleared it; a turn of the loop that finds the bit set     *)
(* changes nothing.                                                        *)
(***************************************************************************)
\* handlers entered in one behaviour
MaxIrqs == 2

Handlers == {"timer1", "timer4"}

\* what no step of entering, waiting in or leaving a handler writes
cpuKeeps == << buttonVars, compVars, histVars, pc, reg, OCF3A, lcdVars, pass,
               refreshes, ticks, c99Vars >>

\* handler h, the latest entered and not yet returned, is at label at
Running(h, at) ==
    /\ irq.stack # << >>
    /\ irq.stack[Len(irq.stack)] = [h |-> h, at |-> at]

\* the running handler moves on to label at
MovedTo(at) == [irq EXCEPT !.stack[Len(irq.stack)].at = at]

\* a handler that sets the flag again with sei
I_in_handler_sei(h) == IF h \in Handlers THEN 1 ELSE 0

\* the I flag inside handler h: cleared on entry, and neither timer1 nor
\* timer4 executes sei
I_in_handler(h) == IF h \in Handlers THEN 0 ELSE 1

\* the hardware takes the interrupt of timer1 or timer4 and jumps to the
\* handler through its vector
irq_taken(h) ==
    /\ irq.I = 1
    /\ irq.n < MaxIrqs
    /\ irq' = [irq EXCEPT !.I = I_in_handler(h),
                          !.stack = Append(@, [h |-> h, at |-> "entry"]),
                          !.n = @ + 1]
    /\ UNCHANGED cpuKeeps

\* timer1's pushes, then lds temp, ADCSRA / ori temp, 0x40 / sts ADCSRA, temp
timer1_start ==
    /\ Running("timer1", "entry")
    /\ irq' = [MovedTo("wait") EXCEPT !.ADSC = 1]
    /\ UNCHANGED cpuKeeps

\* a wait on a bit that stays set
wait_over_never(adsc) == FALSE

\* wait: lds temp, ADCSRA / andi temp, 0x40 / brne wait
wait_over(adsc) == adsc = 0

\* the turn of the wait loop that finds the start bit clear
timer1_wait ==
    /\ Running("timer1", "wait")
    /\ wait_over(irq.ADSC)
    /\ irq' = MovedTo("decode")
    /\ UNCHANGED cpuKeeps

\* the converter finishes and clears the start bit
adc_done ==
    /\ irq.ADSC = 1
    /\ irq' = [irq EXCEPT !.ADSC = 0]
    /\ UNCHANGED cpuKeeps

\* lds DATAL, ADCL / lds DATAH, ADCH and the ladder, to its stores
timer1_decode ==
    /\ Running("timer1", "decode")
    /\ \E s \in Samples : timer1(s)
    /\ irq' = MovedTo("reti")
    /\ UNCHANGED << histVars, pc, reg, OCF3A, pass, refreshes, ticks, c99Vars >>

\* timer4 from its pushes to its pops
timer4_body ==
    /\ Running("timer4", "entry")
    /\ timer4
    /\ pass' = IF pc = "ld_cell"
               THEN [pass EXCEPT !.pairs = @ \cup {CursorCell'}]
               ELSE pass
    /\ irq' = MovedTo("reti")
    /\ UNCHANGED << histVars, pc, reg, OCF3A, refreshes, ticks, c99Vars >>

\* the handler's pops, out SREG, temp and reti
reti(h) ==
    /\ Running(h, "reti")
    /\ irq' = [irq EXCEPT !.stack = SubSeq(@, 1, Len(@) - 1), !.I = 1]
    /\ UNCHANGED cpuKeeps

\* a step of a handler
handler_step ==
    \/ timer1_start
    \/ timer1_wait
    \/ timer1_decode
    \/ timer4_body
    \/ \E h \in Handlers : reti(h)

\* a step of the foreground: the processor is in no handler
main_step ==
    /\ irq.stack = << >>
    /\ Foreground

IsrNext ==
    \/ \E h \in Handlers : irq_taken(h)
    \/ handler_step
    \/ adc_done
    \/ timer3
    \/ main_step

IsrSpec == Init /\ [][IsrNext]_vars

\* a step of the processor: of the handler it is in, else of the foreground
cpu_step == handler_step \/ main_step

\* the processor executes the next instruction of whatever it is in, and a
\* conversion that was started finishes
IsrLive ==
    /\ IsrSpec
    /\ WF_vars(cpu_step)
    /\ WF_vars(adc_done)

(***************************************************************************)
(* C1.  Starting from a blank cell, the k-th consecutive Up tick leaves    *)
(* index k-1 and character Palette[k-1] in the cursor's column for         *)
(* 1 <= k <= N, and every later Up tick leaves what the N-th left: index   *)
(* N-1 and '!'.                                                            *)
(***************************************************************************)
C1_KthUpFromBlank ==
    upRun > 0 =>
        LET k == Min(upRun, PaletteLen)
        IN  /\ CURRENT_CHARSET_INDEX[Cursor] = k - 1
            /\ TOP_LINE_CONTENT[Cursor] = Palette(k - 1)

(***************************************************************************)
(* C2.  Every entry of CURRENT_CHARSET_INDEX lies in 0 .. N-1.             *)
(***************************************************************************)
C2_IndexInRange ==
    \A col \in Cols : CURRENT_CHARSET_INDEX[col] \in 0 .. (PaletteLen - 1)

(***************************************************************************)
(* C3.  Every cell of TOP_LINE_CONTENT is the space or the palette         *)
(* character at the column's stored index.                                 *)
(***************************************************************************)
C3_CellBlankOrPalette ==
    \A col \in Cols :
        \/ TOP_LINE_CONTENT[col] = SPACE
        \/ /\ CURRENT_CHARSET_INDEX[col] \in 0 .. (PaletteLen - 1)
           /\ TOP_LINE_CONTENT[col] = Palette(CURRENT_CHARSET_INDEX[col])

(***************************************************************************)
(* C4.  The cursor stays within 0 .. 15.                                   *)
(***************************************************************************)
C4_CursorInRange == Cursor \in 0 .. (LineLen - 1)

\* a Right tick found the cursor in the last column and left it there
C4_RightTickAtLastColumn ==
    /\ Ticked(RIGHT)
    /\ tick.before.cur = LineLen - 1
    /\ Cursor = LineLen - 1

(***************************************************************************)
(* C5.  A tick with Right pressed adds exactly 1 to the cursor below       *)
(* column 15 and changes nothing at column 15; a tick with Left pressed    *)
(* subtracts exactly 1 above column 0 and changes nothing at column 0.     *)
(* Counted from column 0, the k-th consecutive Right tick leaves the       *)
(* cursor at column k for k <= 15 and at column 15 from then on.           *)
(***************************************************************************)
C5_CursorStep ==
    [][ Update /\ Pressed =>
          /\ CURRENT_BUTTON_PRESSED = RIGHT =>
                IF Cursor < LineLen - 1
                THEN Cursor' = Cursor + 1
                ELSE UNCHANGED compVars
          /\ CURRENT_BUTTON_PRESSED = LEFT =>
                IF Cursor > 0
                THEN Cursor' = Cursor - 1
                ELSE UNCHANGED compVars
          /\ rightRun' > 0 => Cursor' = Min(rightRun', LineLen - 1)
      ]_vars

\* the 16th consecutive Right tick counted from column 0 has left the cursor at 15
C5_SixteenthRightTick ==
    /\ Ticked(RIGHT)
    /\ rightRun = LineLen
    /\ tick.before.cur = LineLen - 1
    /\ Cursor = LineLen - 1

(***************************************************************************)
(* C6.  A tick with Up pressed that finds the cursor's cell blank leaves   *)
(* index 0 and Palette[0] there.                                           *)
(***************************************************************************)
C6_FirstUpFromBlank ==
    [][ Update /\ Pressed /\ CURRENT_BUTTON_PRESSED = UP
          /\ TOP_LINE_CONTENT[Cursor] = SPACE =>
          /\ CURRENT_CHARSET_INDEX'[Cursor] = 0
          /\ TOP_LINE_CONTENT'[Cursor] = Palette(0)
      ]_vars

\* an Up tick found a blank cell in a column right of column 0
C6_UpTickFoundBlank ==
    /\ Ticked(UP)
    /\ tick.before.top[tick.before.cur] = SPACE
    /\ Cursor > 0
    /\ CURRENT_CHARSET_INDEX[Cursor] = 0
    /\ TOP_LINE_CONTENT[Cursor] = Palette(0)

(***************************************************************************)
(* C7.  A tick with Down pressed at the cursor's column: at index 0 it     *)
(* blanks the cell and leaves the index 0; at any other index it           *)
(* subtracts exactly 1 and stores the palette character of the new index.  *)
(***************************************************************************)
C7_DownStep ==
    [][ Update /\ Pressed /\ CURRENT_BUTTON_PRESSED = DOWN =>
          LET i == CURRENT_CHARSET_INDEX[Cursor]
          IN  IF i = 0
              THEN /\ TOP_LINE_CONTENT'[Cursor] = SPACE
                   /\ CURRENT_CHARSET_INDEX'[Cursor] = 0
              ELSE /\ CURRENT_CHARSET_INDEX'[Cursor] = i - 1
                   /\ i - 1 < PaletteLen
                   /\ TOP_LINE_CONTENT'[Cursor] = Palette(i - 1)
      ]_vars

\* a Down tick found index 3 and left index 2 with its character
C7_DownTickDecremented ==
    /\ Ticked(DOWN)
    /\ tick.before.idx[Cursor] = 3
    /\ CURRENT_CHARSET_INDEX[Cursor] = 2
    /\ TOP_LINE_CONTENT[Cursor] = Palette(2)

(***************************************************************************)
(* C8.  Where the cursor's cell is blank, an Up tick followed by a Down    *)
(* tick gives back the composition state before the Up.                    *)
(***************************************************************************)
C8_UpThenDownRoundTrip ==
    TOP_LINE_CONTENT[Cursor] = SPACE =>
        timer4_step(1, DOWN, timer4_step(1, UP, Comp)) = Comp

\* a Down tick followed the first Up tick from a blank cell, and the cell is
\* blank with index 0 again
C8_DownTickAfterFirstUp ==
    /\ Ticked(DOWN)
    /\ tick.run = 1
    /\ tick.before.top[Cursor] = Palette(0)
    /\ TOP_LINE_CONTENT[Cursor] = SPACE
    /\ CURRENT_CHARSET_INDEX[Cursor] = 0

(***************************************************************************)
(* C9.  A tick that finds BUTTON_IS_PRESSED = 0 changes none of the        *)
(* composition state and none of the button bytes.                         *)
(***************************************************************************)
C9_IdleTickChangesNothing ==
    [][ Update /\ BUTTON_IS_PRESSED = 0 =>
          UNCHANGED << compVars, buttonVars >>
      ]_vars

\* a tick found the flag clear while the button byte still held Up, and a
\* composed character is still where it was
C9_IdleTickWithStoredUp ==
    /\ tick.n = 1
    /\ tick.flag = 0
    /\ tick.button = UP
    /\ tick.before = Comp
    /\ TOP_LINE_CONTENT[Cursor] = Palette(1)

(***************************************************************************)
(* C10.  A tick that follows a tick on the same held button still applies  *)
(* one step of that button where the target is not at its clamp, and the   *)
(* third consecutive Up tick from a blank cell has applied three steps.    *)
(***************************************************************************)
C10_AutoRepeat ==
    [][ Update /\ Pressed /\ Ticked(CURRENT_BUTTON_PRESSED) =>
          LET i == CURRENT_CHARSET_INDEX[Cursor]
              b == CURRENT_BUTTON_PRESSED
          IN  /\ b = UP /\ TOP_LINE_CONTENT[Cursor] # SPACE /\ i < PaletteLen - 1 =>
                    /\ CURRENT_CHARSET_INDEX'[Cursor] = i + 1
                    /\ TOP_LINE_CONTENT'[Cursor] = Palette(i + 1)
              /\ b = DOWN /\ i > 0 =>
                    /\ CURRENT_CHARSET_INDEX'[Cursor] = i - 1
                    /\ TOP_LINE_CONTENT'[Cursor] = Palette(i - 1)
              /\ b = RIGHT /\ Cursor < LineLen - 1 => Cursor' = Cursor + 1
              /\ b = LEFT /\ Cursor > 0 => Cursor' = Cursor - 1
              /\ upRun' = 3 =>
                    /\ CURRENT_CHARSET_INDEX'[Cursor] = 2
                    /\ TOP_LINE_CONTENT'[Cursor] = Palette(2)
      ]_vars

\* three consecutive ticks on a held Up, counted from a blank cell, have
\* left index 2
C10_ThirdUpTickOfAHold ==
    /\ Ticked(UP)
    /\ tick.run = 2
    /\ upRun = 3
    /\ CURRENT_CHARSET_INDEX[Cursor] = 2

(***************************************************************************)
(* C11.  A tick that finds the flag set applies the branch of the stored   *)
(* button and no other: an Up or Down tick leaves the cursor and every     *)
(* column but the cursor's as they were, a Right or Left tick leaves all   *)
(* 16 characters and all 16 indices as they were; no tick writes a button  *)
(* byte.                                                                   *)
(***************************************************************************)
C11_TickFrame ==
    [][ Update /\ Pressed =>
          LET b == CURRENT_BUTTON_PRESSED
              col == Cursor
          IN  /\ b = UP => Comp' = t4_up(Comp)
              /\ b = DOWN => Comp' = t4_down(Comp)
              /\ b = RIGHT => Comp' = t4_right(Comp)
              /\ b = LEFT => Comp' = t4_left(Comp)
              /\ b \in {UP, DOWN} =>
                    /\ Cursor' = col
                    /\ \A i \in Cols \ {col} :
                          /\ TOP_LINE_CONTENT'[i] = TOP_LINE_CONTENT[i]
                          /\ CURRENT_CHARSET_INDEX'[i] = CURRENT_CHARSET_INDEX[i]
              /\ b \in {RIGHT, LEFT} =>
                    /\ TOP_LINE_CONTENT' = TOP_LINE_CONTENT
                    /\ CURRENT_CHARSET_INDEX' = CURRENT_CHARSET_INDEX
              /\ UNCHANGED buttonVars
      ]_vars

\* a Right tick moved the cursor off a composed character and left it there
C11_RightTickLeftComposedCell ==
    /\ Ticked(RIGHT)
    /\ tick.before.cur = 0
    /\ tick.before.top[0] = Palette(1)
    /\ Cursor = 1
    /\ TOP_LINE_CONTENT = tick.before.top
    /\ CURRENT_CHARSET_INDEX = tick.before.idx

(***************************************************************************)
(* C12.  After a timer1 run on conversion result s, the flag is set        *)
(* exactly when s lies below one of the four thresholds, and the stored    *)
(* button is then that of the first threshold, in the order Right, Up,     *)
(* Down, Left, that s lies strictly below; s equal to a threshold counts   *)
(* as not below it.  From the Left threshold up, the Select range          *)
(* included, the flag is cleared.                                          *)
(***************************************************************************)
C12_Decoded ==
    sampled.n = 1 =>
        LET s == sampled.s
        IN  /\ s < BUTTON_RIGHT_ADC =>
                  BUTTON_IS_PRESSED = 1 /\ CURRENT_BUTTON_PRESSED = RIGHT
            /\ BUTTON_RIGHT_ADC <= s /\ s < BUTTON_UP_ADC =>
                  BUTTON_IS_PRESSED = 1 /\ CURRENT_BUTTON_PRESSED = UP
            /\ BUTTON_UP_ADC <= s /\ s < BUTTON_DOWN_ADC =>
                  BUTTON_IS_PRESSED = 1 /\ CURRENT_BUTTON_PRESSED = DOWN
            /\ BUTTON_DOWN_ADC <= s /\ s < BUTTON_LEFT_ADC =>
                  BUTTON_IS_PRESSED = 1 /\ CURRENT_BUTTON_PRESSED = LEFT
            /\ BUTTON_LEFT_ADC <= s => BUTTON_IS_PRESSED = 0

\* a result equal to the Down threshold, above 255, was decoded as Left
C12_DownThresholdReadsLeft ==
    /\ sampled.n = 1
    /\ sampled.s = BUTTON_DOWN_ADC
    /\ BUTTON_IS_PRESSED = 1
    /\ CURRENT_BUTTON_PRESSED = LEFT

(***************************************************************************)
(* C13.  A cleared flag goes with no stored button: once timer1 has set    *)
(* the flag, every state in which the flag is found cleared again holds    *)
(* the 'no button' value 0 in CURRENT_BUTTON_PRESSED, so the byte no       *)
(* longer names the released button.                                       *)
(***************************************************************************)
C13_ReleasedMeansNone ==
    [][ BUTTON_IS_PRESSED = 1 =>
          (BUTTON_IS_PRESSED' = 0 => CURRENT_BUTTON_PRESSED' = 0)
      ]_vars

\* the four buttons with a glyph
Buttons == {RIGHT, UP, DOWN, LEFT}

(***************************************************************************)
(* C14.  lcd_gotoxy and lcd_putchar are called by the foreground only:     *)
(* every step that changes the display, its writing position or the        *)
(* record of driver calls is a step of polling_loop or a routine it calls, *)
(* the call on record names the foreground as its caller, and this holds   *)
(* however timer1 and timer4 interleave with the foreground.               *)
(***************************************************************************)
C14_DriverCalledByForegroundOnly ==
    [][ lcdVars' # lcdVars => Foreground /\ lcdCall'.ctx = "main" ]_vars

\* timer4 has composed a character during a pass that is about to write the
\* button's glyph and has not drawn the top row yet
C14_TickDuringRedraw ==
    /\ pc = "set_char"
    /\ ticks = 1
    /\ TOP_LINE_CONTENT[0] = Palette(0)
    /\ lcd[0][0] = SPACE
    /\ lcd[1][15] = SPACE
    /\ lcdCall.ctx = "main"

(***************************************************************************)
(* C15.  A refresh pass redraws the bottom-row glyph exactly when the      *)
(* button it finds, 'no button' where it finds the flag clear, differs     *)
(* from lastButton: never when they are equal, and always when they        *)
(* differ, the change to 'no button' on release included.  Stated for the  *)
(* state in which the indicator part of the pass is over, and, for the     *)
(* direction 'differs, so redraws', for a lastButton whose glyph an        *)
(* earlier pass has put on the display.                                    *)
(***************************************************************************)
C15_RedrawOncePerChange ==
    LET found == IF pass.flag = 0 THEN 0 ELSE pass.cur
        shown == /\ refreshes > 1
                 /\ pass.last \in Buttons
                 /\ lcd[1][glyph_col(pass.last)] = pass.last
    IN  pc = "set_counter" =>
            /\ pass.redrawn => found # pass.last
            /\ found # pass.last /\ shown => pass.redrawn

(***************************************************************************)
(* C16.  Where a pass that found the flag as timer1 sets it has redrawn    *)
(* the indicator, the character it wrote is a button's glyph and the       *)
(* column it wrote it to is that button's: 'L' in column 0, 'D' in column  *)
(* 1, 'U' in column 2, 'R' in column 3, in every interleaving with timer1. *)
(***************************************************************************)
C16_GlyphInItsColumn ==
    pc = "set_char_end" /\ pass.flag = 1 /\ pass.redrawn =>
        /\ lcdCall.ch \in Buttons
        /\ lcdCall.row = 1
        /\ lcdCall.col = glyph_col(lcdCall.ch)

(***************************************************************************)
(* C17 as claimed.  Where the cursor's cell is blank when set_counter      *)
(* loads it, set_counter calls neither lcd_gotoxy nor lcd_putchar.         *)
(***************************************************************************)
C17_BlankCellNotDrawn ==
    [][ /\ pc = "ld_cell" /\ pc' = "skip_counter"
        /\ reg.r17 = Cursor
        /\ TOP_LINE_CONTENT[Cursor] = SPACE
        => UNCHANGED lcdVars
      ]_vars

(***************************************************************************)
(* C17.  set_counter makes no driver call only where the cell it loads     *)
(* holds the byte 0; any other cell, the blank one included, it writes at  *)
(* row 0 and the column it read from the cursor: a blank cell is drawn as  *)
(* a space.                                                                *)
(***************************************************************************)
C17_OnlyTerminatorNotDrawn ==
    [][ pc = "ld_cell" /\ pc' = "skip_counter" =>
          LET col == reg.r17
              ch == TOP_LINE_CONTENT[col]
          IN  /\ ch = 0 => UNCHANGED lcdVars
              /\ ch # 0 =>
                    /\ lcdCall'.row = 0 /\ lcdCall'.col = col
                    /\ lcdCall'.ch = ch
                    /\ lcdCall'.ctx = "main"
      ]_vars

\* a pass found the cursor's cell blank and wrote a space at row 0, column 1
C17_SpaceDrawnForBlankCell ==
    /\ pc = "skip_counter"
    /\ Cursor = 1
    /\ reg.r17 = 1
    /\ reg.r18 = SPACE
    /\ TOP_LINE_CONTENT[1] = SPACE
    /\ lcdCall.row = 0 /\ lcdCall.col = 1 /\ lcdCall.ch = SPACE

C20_WholeSnapshot ==
    pc \in {"set_char", "set_char_end", "set_counter"} /\ pass.flag = 1
        => pass.cur = pass.was

(***************************************************************************)
(* C19.  When start-up enters polling_loop, every cell is blank, every     *)
(* index is 0, the cursor is 0, the flag is clear and CURRENT_ and         *)
(* LAST_BUTTON_PRESSED hold 'no button', 0, whatever the data space held   *)
(* at power-on.  Stated for the start-ups in which no button has been      *)
(* pressed and no timer4 interrupt has fired.                              *)
(***************************************************************************)
C19_ZeroedAtLoopEntry ==
    Booted /\ presses = 0 /\ ticks = 0 =>
        /\ \A i \in Cols : TOP_LINE_CONTENT[i] = SPACE
        /\ \A i \in Cols : CURRENT_CHARSET_INDEX[i] = 0
        /\ CURRENT_CHAR_INDEX = 0
        /\ BUTTON_IS_PRESSED = 0
        /\ CURRENT_BUTTON_PRESSED = 0
        /\ LAST_BUTTON_PRESSED = 0

(***************************************************************************)
(* C21.  What set_counter draws on the top row is a cursor and the cell    *)
(* under it as they stood together in one composition state between two    *)
(* timer4 runs, also where timer4 runs between set_counter's load of the   *)
(* cursor and its load of the cell: the column is the cursor it loaded,    *)
(* the character is that column's cell, and the pair is one of the pairs   *)
(* of cursor and cell under it that existed from the first load on.        *)
(***************************************************************************)
C21_DrawnPairExisted ==
    [][ /\ pc = "ld_cell" /\ pc' = "skip_counter"
        /\ ~set_counter_skips(TOP_LINE_CONTENT[reg.r17])
        => /\ lcdCall'.row = 0
           /\ lcdCall'.col = reg.r17
           /\ lcdCall'.ch = TOP_LINE_CONTENT[lcdCall'.col]
           /\ << lcdCall'.col, lcdCall'.ch >> \in pass.pairs
      ]_vars

\* an Up tick ran between the two loads: the pass loaded cursor 0 over a
\* blank cell and drew, at column 0, the character the tick composed there
C21_TickBetweenTheLoads ==
    /\ pc = "skip_counter"
    /\ ticks = 1
    /\ pass.pairs = {<< 0, SPACE >>, << 0, Palette(0) >>}
    /\ reg.r17 = 0
    /\ lcdCall.row = 0 /\ lcdCall.col = 0 /\ lcdCall.ch = Palette(0)
    /\ lcd[0][0] = Palette(0)

(***************************************************************************)
(* C22.  Every lcd_gotoxy the foreground has called was given a row in     *)
(* 0 .. 1 and a column in 0 .. 15: the pressed marker goes to row 1,       *)
(* column 15, the row clear to row 1 and columns 0 .. 15, the button's     *)
(* glyph to row 1 and a column in 0 .. 3, the top-row character to row 0   *)
(* and the column set_counter loaded from the cursor.                      *)
(***************************************************************************)
C22_GotoxyInRange ==
    /\ lcdCall.toprow \in Rows /\ lcdCall.topcol \in Cols
    /\ lcdCall.row \in Rows /\ lcdCall.col \in Cols
    /\ pc \in {"set_button_press", "test_which_button"} =>
          lcdCall.row = 1 /\ lcdCall.col = LineLen - 1
    /\ pc = "set_char" => lcdCall.row = 1 /\ lcdCall.col = LineLen - 1
    /\ pc = "set_char_end" /\ pass.redrawn =>
          lcdCall.row = 1 /\ lcdCall.col \in 0 .. 3
    /\ pc = "skip_counter" /\ ~set_counter_skips(reg.r18) =>
          lcdCall.row = 0 /\ lcdCall.col = reg.r17 /\ reg.r17 \in Cols

\* one pass has made all four kinds of call: marker, row clear, glyph, and
\* the top-row character at the column a Right tick moved the cursor to
C22_AllFourCallSites ==
    /\ pc = "skip_counter"
    /\ pass.redrawn
    /\ lcd[1][glyph_col(RIGHT)] = RIGHT
    /\ Cursor = 1
    /\ lcdCall.row = 0 /\ lcdCall.col = 1
    /\ lcdCall.toprow = 1 /\ lcdCall.topcol = LineLen - 1

(***************************************************************************)
(* C25.  The foreground starts a pass only with OCF3A set, and when the    *)
(* pass returns to polling_loop the flag is clear, so that one elapsed     *)
(* period of timer3 is served by one pass.                                 *)
(***************************************************************************)
C25_FlagClearedAfterService ==
    [][ /\ pc = "polling_loop" /\ pc' # pc => OCF3A = 1
        /\ pc = "skip_counter" /\ pc' = "polling_loop" => OCF3A' = 0
      ]_vars

(***************************************************************************)
(* C26.  When a pass has done its drawing, row 1, column 15 of the display *)
(* shows the pressed marker of the pass: '*' where it found the flag set,  *)
(* '-' where it found it clear, also where the pass has redrawn the        *)
(* button's glyph.  Stated for a flag as timer1 stores it.                 *)
(***************************************************************************)
C26_MarkerShownAfterPass ==
    pc = "skip_counter" /\ pass.flag \in {0, 1} =>
        lcd[1][LineLen - 1] = IF pass.flag = 1 THEN ASTERISK ELSE DASH

(***************************************************************************)
(* C27.  The byte polling_loop pops after set_button_press is 1 where the  *)
(* pass found the flag set and 0 where it found it clear, and set_counter  *)
(* is called on the passes that found it set and on no others.             *)
(***************************************************************************)
C27_PoppedByteTellsPressed ==
    /\ pc \in {"set_counter", "ld_cell", "skip_counter"} =>
          reg.temp = IF pass.flag # 0 THEN 1 ELSE 0
    /\ pc = "set_counter" => pass.flag # 0
    /\ pc = "skip_counter" /\ pass.pairs = {} => pass.flag = 0

(***************************************************************************)
(* C28.  When the indicator part of a pass that redrew the bottom row is   *)
(* over, LAST_BUTTON_PRESSED is the button whose glyph the pass wrote and  *)
(* the display shows, however timer1 interleaves with the pass.  Stated    *)
(* for a pass that found the flag as timer1 stores it.                     *)
(***************************************************************************)
C28_LastIsTheGlyphShown ==
    pc = "set_counter" /\ pass.redrawn /\ pass.flag = 1 =>
        /\ LAST_BUTTON_PRESSED = lcdCall.ch
        /\ lcd[lcdCall.row][lcdCall.col] = LAST_BUTTON_PRESSED

(***************************************************************************)
(* C29.  No timer4 run falls between sei and the end of                    *)
(* initialize_data_space: as long as start-up has not entered              *)
(* polling_loop, timer4 has not run.                                       *)
(***************************************************************************)
C29_NoTickBeforeInitEnds ==
    ~Booted => ticks = 0

(***************************************************************************)
(* C30.  A blank cell has stored index 0: in every state reached from the  *)
(* initialized data space by timer1 and timer4 runs, each of the 16        *)
(* columns whose character is the space has index 0.                       *)
(***************************************************************************)
C30_BlankCellHasIndexZero ==
    \A col \in Cols :
        TOP_LINE_CONTENT[col] = SPACE => CURRENT_CHARSET_INDEX[col] = 0

\* a held Down has stepped a composed cell down to index 0 and, on a later
\* tick, blanked it; the index is still 0
C30_ComposedCellBlankedAgain ==
    /\ Ticked(DOWN)
    /\ tick.run = 0
    /\ tick.before.idx[Cursor] = 0
    /\ tick.before.top[Cursor] = Palette(0)
    /\ TOP_LINE_CONTENT[Cursor] = SPACE
    /\ CURRENT_CHARSET_INDEX[Cursor] = 0

(***************************************************************************)
(* C23.  The handlers do not nest: at most one invocation of timer1 or     *)
(* timer4 is entered and not yet returned at any time, and it runs with    *)
(* the I flag clear, so that between timer1's start of the conversion and  *)
(* its return neither timer1 again nor timer4 is entered.                  *)
(***************************************************************************)
C23_HandlersDoNotNest ==
    /\ Len(irq.stack) <= 1
    /\ irq.stack # << >> => irq.I = 0
    /\ \A at \in {"wait", "decode", "reti"} :
          Running("timer1", at) => irq.stack = << [h |-> "timer1", at |-> at] >>

\* the second handler entered in a behaviour is timer1; it has started the
\* conversion, the converter has finished, and the handler is about to read
\* the result, in the middle of a refresh pass
C23_SecondEntryAwaitsResult ==
    /\ Running("timer1", "decode")
    /\ irq.n = 2
    /\ irq.I = 0
    /\ irq.ADSC = 0
    /\ pc = "ld_cell"

(***************************************************************************)
(* C24.  No task blocks for ever: given that a started conversion          *)
(* finishes, every state with a handler entered or a refresh pass under    *)
(* way is followed by one with no handler entered and the foreground back  *)
(* at polling_loop; so every handler invocation returns and every pass     *)
(* that has started gets back to polling.                                  *)
(***************************************************************************)
C24_EveryTaskReturns ==
    (irq.stack # << >> \/ pc # "polling_loop")
        ~> (irq.stack = << >> /\ pc = "polling_loop")

\* timer1 is in its wait loop with the conversion still running, entered
\* in the middle of a refresh pass that has cleared the bottom row
C24_WaitingForConversion ==
    /\ Running("timer1", "wait")
    /\ irq.ADSC = 1
    /\ pc = "set_char"
    /\ pass.redrawn

(***************************************************************************)
(* list.c: the comparators.  An unsigned long is 64 bits wide and an int   *)
(* 32; a count is held as its four 16-bit limbs, least significant first,  *)
(* so that the subtraction wraps at 2^64 and the conversion to int keeps   *)
(* the low 32 bits, as the compiled code does.                             *)
(***************************************************************************)
LIMB == 65536
ULONG_LIMBS == 4

\* the borrow out of limb i of a - b
RECURSIVE borrow(_, _, _)
borrow(a, b, i) ==
    IF i = 0 THEN 0
    ELSE IF a[i] - b[i] - borrow(a, b, i - 1) < 0 THEN 1 ELSE 0

\* a - b of two unsigned long values: the difference modulo 2^64
usub(a, b) ==
    [i \in 1 .. ULONG_LIMBS |-> (a[i] - b[i] - borrow(a, b, i - 1) + LIMB) % LIMB]

\* a < b and a > b of two unsigned long values
ult(a, b) == borrow(a, b, ULONG_LIMBS) = 1
ugt(a, b) == ult(b, a)

\* an unsigned long returned as int: the low 32 bits read as two's complement
int_of_ulong(u) ==
    IF u[2] >= LIMB \div 2
    THEN (u[2] - LIMB) * LIMB + u[1]
    ELSE u[2] * LIMB + u[1]

\* a comparison's value in C: 1 when it holds, 0 when not
truth(p) == IF p THEN 1 ELSE 0

compare_by_streams(a, b, order) ==
    IF order > 0
    THEN truth(ugt(a.streams, b.streams)) - truth(ult(a.streams, b.streams))
    ELSE truth(ugt(b.streams, a.streams)) - truth(ult(b.streams, a.streams))

compare_by_apple_playlists(a, b, order) ==
    IF order > 0
    THEN int_of_ulong(usub(a.in_apple_playlists, b.in_apple_playlists))
    ELSE int_of_ulong(usub(b.in_apple_playlists, a.in_apple_playlists))

compare_by_spotify_playlists(a, b, order) ==
    IF order > 0
    THEN int_of_ulong(usub(a.in_spotify_playlists, b.in_spotify_playlists))
    ELSE int_of_ulong(usub(b.in_spotify_playlists, a.in_spotify_playlists))

Comparators ==
    {"compare_by_streams", "compare_by_apple_playlists", "compare_by_spotify_playlists"}

\* a call through the pointer compare
compare(fn, a, b, order) ==
    CASE fn = "compare_by_streams" -> compare_by_streams(a, b, order)
      [] fn = "compare_by_apple_playlists" -> compare_by_apple_playlists(a, b, order)
      [] fn = "compare_by_spotify_playlists" -> compare_by_spotify_playlists(a, b, order)

\* counts tried: 0, 1, 2, 2^31 - 1, 2^31, 2^32, 2^64 - 1
CountSamples ==
    { << 0, 0, 0, 0 >>, << 1, 0, 0, 0 >>, << 2, 0, 0, 0 >>,
      << LIMB - 1, LIMB \div 2 - 1, 0, 0 >>, << 0, LIMB \div 2, 0, 0 >>,
      << 0, 0, 1, 0 >>,
      << LIMB - 1, LIMB - 1, LIMB - 1, LIMB - 1 >> }

\* values of order tried
OrderSamples == {0 - 1, 0, 1}

\* a node_t with the given name, the count k in its three counters, and next
Node(name, k, next) ==
    [track_name |-> name, streams |-> k, in_apple_playlists |-> k,
     in_spotify_playlists |-> k, next |-> next]

\* a node's data: every field of it but next
Data(node) == [f \in DOMAIN node \ {"next"} |-> node[f]]

\* the LCD program at rest while the C functions are exercised
LcdIdle ==
    /\ InitMemory
    /\ sampled = NoSample
    /\ BUTTON_IS_PRESSED = 0
    /\ CURRENT_BUTTON_PRESSED = 0
    /\ LAST_BUTTON_PRESSED = 0

lcdProgram == << buttonVars, compVars, histVars, pc, reg, OCF3A, lcdVars, pass,
                 refreshes, ticks, irq >>

\* two nodes and an order are given; no comparator has been called yet
CmpInit ==
    /\ LcdIdle
    /\ ListIdle
    /\ LedIdle
    /\ \E ka \in CountSamples, kb \in CountSamples, o \in OrderSamples :
          cmp = [n |-> 0, fn |-> "", a |-> Node("a", ka, NULL),
                 b |-> Node("b", kb, NULL), order |-> o, ret |-> 0]

\* one call of the comparator fn on the two nodes
compare_call(fn) ==
    /\ cmp.n = 0
    /\ cmp' = [cmp EXCEPT !.n = 1, !.fn = fn,
                          !.ret = compare(fn, cmp.a, cmp.b, cmp.order)]
    /\ UNCHANGED << lcdProgram, listVars, ledVars >>

CmpNext ==
    \/ compare_call("compare_by_streams")
    \/ compare_call("compare_by_apple_playlists")
    \/ compare_call("compare_by_spotify_playlists")

CmpSpec == CmpInit /\ [][CmpNext]_vars

(***************************************************************************)
(* list.c: add_inorder.  The heap is the sequence of the nodes allocated,  *)
(* a pointer is a node's place in it, and malloc returns the next free     *)
(* place.                                                                  *)
(***************************************************************************)
MaxNodes == 3

\* counts the inserted nodes carry: 0, 1, 2^31, 2^32
ListCounts ==
    { << 0, 0, 0, 0 >>, << 1, 0, 0, 0 >>, << 0, LIMB \div 2, 0, 0 >>,
      << 0, 0, 1, 0 >> }

\* the loop's test on compare's result
add_inorder_passes_smaller(c) == c < 0
add_inorder_passes(c) == c > 0

\* the while loop: prev and curr where it stops
RECURSIVE add_inorder_loop(_, _, _, _, _, _)
add_inorder_loop(h, new_node, prev, curr, fn, order) ==
    IF curr # NULL /\ add_inorder_passes(compare(fn, h[new_node], h[curr], order))
    THEN add_inorder_loop(h, new_node, curr, h[curr].next, fn, order)
    ELSE [prev |-> prev, curr |-> curr]

\* add_inorder(list, new, compare, order): the heap it leaves and the pointer
\* it returns
add_inorder(h, lst, new, fn, order) ==
    LET new_node == Len(h) + 1
        copied == Append(h, new)
        at == add_inorder_loop(copied, new_node, NULL, lst, fn, order)
        linked == [copied EXCEPT ![new_node].next = at.curr]
    IN  IF at.prev = NULL
        THEN [heap |-> linked, ret |-> new_node]
        ELSE [heap |-> [linked EXCEPT ![at.prev].next = new_node], ret |-> lst]

\* the nodes of the list that starts at p, in order
RECURSIVE ListOf(_, _)
ListOf(h, p) == IF p = NULL THEN << >> ELSE << p >> \o ListOf(h, h[p].next)

\* every node of the list at p compares <= 0 with its successor
Sorted(h, p, fn, order) ==
    LET s == ListOf(h, p)
    IN  \A i \in 1 .. Len(s) - 1 : compare(fn, h[s[i]], h[s[i + 1]], order) <= 0

\* the sequence s without its i-th element
Without(s, i) == SubSeq(s, 1, i - 1) \o SubSeq(s, i + 1, Len(s))

\* an empty list, and the comparator and order the caller sorts it by
ListInit ==
    /\ LcdIdle
    /\ CmpIdle
    /\ LedIdle
    /\ heap = << >>
    /\ list = NULL
    /\ \E fn \in Comparators, o \in OrderSamples :
          ins = [n |-> 0, compare |-> fn, order |-> o, new |-> << >>,
                 node |-> NULL, heap |-> << >>, list |-> NULL, ret |-> NULL]

\* list = add_inorder(list, new, compare, order), new holding the count k and
\* any pointer in its next field
add_inorder_call ==
    /\ Len(heap) < MaxNodes
    /\ \E k \in ListCounts, nx \in 0 .. Len(heap) :
          LET new == Node(ins.n + 1, k, nx)
              r == add_inorder(heap, list, new, ins.compare, ins.order)
          IN  /\ heap' = r.heap
              /\ list' = r.ret
              /\ ins' = [ins EXCEPT !.n = @ + 1, !.new = new,
                                    !.node = Len(heap) + 1, !.heap = heap,
                                    !.list = list, !.ret = r.ret]
    /\ UNCHANGED << lcdProgram, cmpVars, ledVars >>

ListNext == add_inorder_call

ListSpec == ListInit /\ [][ListNext]_vars

\* C31: after add_inorder on a sorted list, the list is sorted under the same
\* comparator and order, it is the old list with one new node put in that
\* carries a copy of new's data, no old node's data has changed, and the pointer
\* returned is the old head unless the new node is the first.
C31_InsertedInOrder ==
    ins.n > 0 =>
        LET before == ListOf(ins.heap, ins.list)
            after == ListOf(heap, ins.ret)
        IN  /\ Sorted(ins.heap, ins.list, ins.compare, ins.order)
                => Sorted(heap, ins.ret, ins.compare, ins.order)
            /\ \E i \in 1 .. Len(after) :
                  /\ after[i] = ins.node
                  /\ Without(after, i) = before
                  /\ ins.ret = IF i = 1 THEN ins.node ELSE ins.list
            /\ ins.node \notin { before[j] : j \in 1 .. Len(before) }
            /\ Data(heap[ins.node]) = Data(ins.new)
            /\ \A p \in 1 .. Len(ins.heap) : Data(heap[p]) = Data(ins.heap[p])

\* a node went between the two nodes of a list, and the old head was returned
C31_InsertedInTheMiddle ==
    /\ ins.n > 0
    /\ Len(ListOf(ins.heap, ins.list)) = 2
    /\ ListOf(heap, list)[2] = ins.node
    /\ ins.ret = ins.list
    /\ ins.new.next # heap[ins.node].next

\* C32: a playlist comparator's result is positive exactly when the first
\* count (a's for order > 0, b's otherwise) is greater than the second, negative
\* exactly when it is smaller, and 0 exactly when the counts are equal.
C32_SignFollowsCounts ==
    (cmp.n > 0 /\ cmp.fn # "compare_by_streams") =>
        LET ka == IF cmp.fn = "compare_by_apple_playlists"
                  THEN cmp.a.in_apple_playlists ELSE cmp.a.in_spotify_playlists
            kb == IF cmp.fn = "compare_by_apple_playlists"
                  THEN cmp.b.in_apple_playlists ELSE cmp.b.in_spotify_playlists
            x == IF cmp.order > 0 THEN ka ELSE kb
            y == IF cmp.order > 0 THEN kb ELSE ka
        IN  /\ cmp.ret > 0 <=> ugt(x, y)
            /\ cmp.ret < 0 <=> ult(x, y)
            /\ cmp.ret = 0 <=> x = y

(***************************************************************************)
(* LED_Sequencer.c: led_state.  PORTB and PORTL are 8-bit registers; the   *)
(* timer handlers of the program write neither.                            *)
(***************************************************************************)
\* bit k of the byte p
bit(p, k) == (p \div 2 ^ k) % 2

\* x & y and x | y of two bytes, bit by bit from bit k up
RECURSIVE and8(_, _, _)
and8(x, y, k) ==
    IF k > 7 THEN 0
    ELSE (bit(x, k) * bit(y, k)) * 2 ^ k + and8(x, y, k + 1)

RECURSIVE or8(_, _, _)
or8(x, y, k) ==
    IF k > 7 THEN 0
    ELSE (IF bit(x, k) + bit(y, k) > 0 THEN 1 ELSE 0) * 2 ^ k + or8(x, y, k + 1)

\* (uint8_t)~x
not8(x) == 255 - x

\* the mask of the state == 0 branch, from the LED's bit
mask_off_same(b) == b
mask_off(b) == not8(b)

\* one case of the switch: the port after PORT &= mask or PORT |= mask
led_case(port, b, state) ==
    IF state = 0
    THEN and8(port, mask_off(b), 0)
    ELSE or8(port, b, 0)

\* led_state(LED, state) on the ports B and L: the ports it leaves
led_state(LED, state, B, L) ==
    CASE LED = 0 -> [PORTB |-> led_case(B, 2, state), PORTL |-> L]
      [] LED = 1 -> [PORTB |-> led_case(B, 8, state), PORTL |-> L]
      [] LED = 2 -> [PORTB |-> B, PORTL |-> led_case(L, 2, state)]
      [] LED = 3 -> [PORTB |-> B, PORTL |-> led_case(L, 8, state)]
      [] LED = 4 -> [PORTB |-> B, PORTL |-> led_case(L, 32, state)]
      [] LED = 5 -> [PORTB |-> B, PORTL |-> led_case(L, 128, state)]
      [] OTHER -> [PORTB |-> B, PORTL |-> L]

\* port contents, LED numbers and states tried
PortSamples == {0, 85, 170, 255}
LedSamples == (0 .. 6) \cup {255}
StateSamples == {0, 1, 255}

LedInit ==
    /\ LcdIdle
    /\ CmpIdle
    /\ ListIdle
    /\ PORTB \in PortSamples
    /\ PORTL \in PortSamples
    /\ led = NoLed

\* one call led_state(LED, state)
led_state_call(LED, state) ==
    /\ PORTB' = led_state(LED, state, PORTB, PORTL).PORTB
    /\ PORTL' = led_state(LED, state, PORTB, PORTL).PORTL
    /\ led' = [n |-> 1, LED |-> LED, state |-> state, PORTB |-> PORTB,
               PORTL |-> PORTL]
    /\ UNCHANGED << lcdProgram, cmpVars, listVars >>

LedNext == \E LED \in LedSamples, state \in StateSamples : led_state_call(LED, state)

LedSpec == LedInit /\ [][LedNext]_vars

\* the port and the bit that belong to an LED
LedPort(LED) == IF LED <= 1 THEN "PORTB" ELSE "PORTL"
LedBit(LED) == << 1, 3, 1, 3, 5, 7 >>[LED + 1]

\* C33: after led_state(LED, state) with LED <= 5 the LED's bit of its port is
\* 1 when state # 0 and 0 when state = 0, every other bit of PORTB and PORTL is
\* as before; with LED > 5 both ports are as before; a second call with the same
\* arguments leaves the ports as the first left them.
C33_OnlyTheLedsBit ==
    led.n > 0 =>
        LET now == [PORTB |-> PORTB, PORTL |-> PORTL]
        IN  /\ led.LED > 5 => (PORTB = led.PORTB /\ PORTL = led.PORTL)
            /\ led.LED <= 5 =>
                  \A p \in {"PORTB", "PORTL"}, k \in 0 .. 7 :
                     bit(now[p], k) =
                        IF p = LedPort(led.LED) /\ k = LedBit(led.LED)
                        THEN (IF led.state # 0 THEN 1 ELSE 0)
                        ELSE bit(led[p], k)
            /\ led_state(led.LED, led.state, PORTB, PORTL) = now

\* LED 5 was switched off while every other bit of PORTL was set, and LED 1
\* on while PORTB held other bits
C33_ClearedAmongSetBits ==
    \/ /\ led.n > 0
       /\ led.LED = 5
       /\ led.state = 0
       /\ led.PORTL = 255
       /\ PORTL = 127
       /\ PORTB = 85
    \/ /\ led.n > 0
       /\ led.LED = 1
       /\ led.state = 255
       /\ led.PORTB = 85
       /\ PORTB = 93
       /\ PORTL = 170

=============================================================================
